---- MODULE Spec2Model ----
(***************************************************************************)
(* sam-to-bam: src/main.rs.  Text is a sequence of Unicode code points     *)
(* (Rust `str`), bytes are numbers 0..255.  An input file is a sequence of *)
(* lines; the output is the sequence of chunks handed to the compressing   *)
(* writer by write_all, followed by what is written to the raw file after  *)
(* the compressor is finished.                                             *)
(***************************************************************************)
EXTENDS Integers, Sequences, FiniteSets, TLC

VARIABLES input, lines, header_text, ref_names, ref_lengths, records,
          loc, record, bgzf_writer, finished, writer, pc

vars == <<input, lines, header_text, ref_names, ref_lengths, records,
          loc, record, bgzf_writer, finished, writer, pc>>

(***************************************************************************)
(* Strings and bytes                                                       *)
(***************************************************************************)

RECURSIVE Concat(_)
\* Concatenation of a sequence of sequences (by halves).
Concat(ss) ==
    IF Len(ss) = 0 THEN <<>>
    ELSE IF Len(ss) = 1 THEN ss[1]
    ELSE Concat(SubSeq(ss, 1, Len(ss) \div 2)) \o Concat(SubSeq(ss, (Len(ss) \div 2) + 1, Len(ss)))

\* UTF-8 encoding of one code point (one or two bytes; the model's text
\* stays below U+0800).
Utf8(c) == IF c < 128 THEN <<c>> ELSE <<192 + (c \div 64), 128 + (c % 64)>>

\* str::as_bytes
as_bytes(s) == Concat([i \in 1..Len(s) |-> Utf8(s[i])])

\* str::len, the length in BYTES
len(s) == Len(as_bytes(s))

\* str::starts_with
starts_with(s, p) == Len(s) >= Len(p) /\ SubSeq(s, 1, Len(p)) = p

is_ascii_digit(c) == c \in 48..57

is_ascii_alphabetic(c) == c \in 65..90 \/ c \in 97..122

to_ascii_uppercase(c) == IF c \in 97..122 THEN c - 32 ELSE c

\* the positions of the separator sep in s
SepPositions(s, sep) == {i \in 1..Len(s) : s[i] = sep}

\* the k-th smallest position of P; 0 for k = 0
NthPosition(P, k) ==
    IF k = 0 THEN 0 ELSE CHOOSE i \in P : Cardinality({j \in P : j < i}) = k - 1

\* str::split(sep): the fields between separators; "" gives one empty field.
split(s, sep) ==
    LET P == SepPositions(s, sep)
        m == Cardinality(P)
    IN  [k \in 1..(m + 1) |->
            SubSeq(s, NthPosition(P, k - 1) + 1,
                   IF k <= m THEN NthPosition(P, k) - 1 ELSE Len(s))]

\* str::splitn(n, sep): at most n fields, the last one holding the rest.
splitn(s, n, sep) ==
    LET P == SepPositions(s, sep)
        m == IF Cardinality(P) < n - 1 THEN Cardinality(P) ELSE n - 1
    IN  [k \in 1..(m + 1) |->
            SubSeq(s, NthPosition(P, k - 1) + 1,
                   IF k <= m THEN NthPosition(P, k) - 1 ELSE Len(s))]

\* u32::to_le_bytes of a number 0 <= n < 2^31
u32_le(n) == <<n % 256, (n \div 256) % 256, (n \div 65536) % 256, (n \div 16777216) % 256>>

\* u16::to_le_bytes
u16_le(n) == <<n % 256, (n \div 256) % 256>>

\* i32::to_le_bytes (two's complement)
i32_le(v) ==
    IF v >= 0 THEN u32_le(v)
    ELSE LET u == -(v + 1)
         IN  <<255 - (u % 256), 255 - ((u \div 256) % 256),
               255 - ((u \div 65536) % 256), 255 - ((u \div 16777216) % 256)>>

(***************************************************************************)
(* str::parse for the integer types (core::num from_str_radix, radix 10):  *)
(* empty text, a lone sign, a non-digit, or a value out of range fail.     *)
(***************************************************************************)

RECURSIVE ParsePosGo(_, _, _, _)
\* digits accumulated upwards with checked_mul / checked_add against max
ParsePosGo(s, i, acc, max) ==
    IF i > Len(s) THEN [ok |-> TRUE, val |-> acc]
    ELSE IF ~is_ascii_digit(s[i]) THEN [ok |-> FALSE, val |-> 0]
    ELSE LET d == s[i] - 48
         IN  IF acc > (max - d) \div 10 THEN [ok |-> FALSE, val |-> 0]
             ELSE ParsePosGo(s, i + 1, acc * 10 + d, max)

RECURSIVE ParseNegGo(_, _, _)
\* digits accumulated downwards with checked_mul / checked_sub against i32::MIN
ParseNegGo(s, i, acc) ==
    IF i > Len(s) THEN [ok |-> TRUE, val |-> acc]
    ELSE IF ~is_ascii_digit(s[i]) THEN [ok |-> FALSE, val |-> 0]
    ELSE LET d == s[i] - 48
         IN  IF acc < -214748364 \/ (acc = -214748364 /\ d > 8)
             THEN [ok |-> FALSE, val |-> 0]
             ELSE ParseNegGo(s, i + 1, acc * 10 - d)

\* the sign rule shared by all integer types: a lone "+" or "-" fails
LoneSign(s) == Len(s) = 1 /\ s[1] \in {43, 45}

\* parse::<u8>() and parse::<u16>(): max is the type's MAX
parse_unsigned(s, max) ==
    IF s = <<>> \/ LoneSign(s) THEN [ok |-> FALSE, val |-> 0]
    ELSE IF s[1] = 43 THEN ParsePosGo(Tail(s), 1, 0, max)
    ELSE ParsePosGo(s, 1, 0, max)

\* parse::<i32>()
parse_i32(s) ==
    IF s = <<>> \/ LoneSign(s) THEN [ok |-> FALSE, val |-> 0]
    ELSE IF s[1] = 43 THEN ParsePosGo(Tail(s), 1, 0, 2147483647)
    ELSE IF s[1] = 45 THEN ParseNegGo(Tail(s), 1, 0)
    ELSE ParsePosGo(s, 1, 0, 2147483647)

\* Result::unwrap_or
unwrap_or(r, dflt) == IF r.ok THEN r.val ELSE dflt

\* A u32 is kept as its four little-endian bytes, so that the whole range
\* 0 .. 2^32-1 is exact.  acc * 10 + d on the bytes; the carry out of the
\* fourth byte is the overflow that checked_mul / checked_add report.
U32MulAdd(le, d) ==
    LET t1 == le[1] * 10 + d
        t2 == le[2] * 10 + (t1 \div 256)
        t3 == le[3] * 10 + (t2 \div 256)
        t4 == le[4] * 10 + (t3 \div 256)
    IN  [ok |-> t4 < 256, le |-> <<t1 % 256, t2 % 256, t3 % 256, t4 % 256>>]

RECURSIVE ParseU32Go(_, _, _)
ParseU32Go(s, i, le) ==
    IF i > Len(s) THEN [ok |-> TRUE, le |-> le]
    ELSE IF ~is_ascii_digit(s[i]) THEN [ok |-> FALSE, le |-> <<0, 0, 0, 0>>]
    ELSE LET r == U32MulAdd(le, s[i] - 48)
         IN  IF ~r.ok THEN [ok |-> FALSE, le |-> <<0, 0, 0, 0>>]
             ELSE ParseU32Go(s, i + 1, r.le)

\* parse::<u32>(), the value as little-endian bytes
parse_u32(s) ==
    IF s = <<>> \/ LoneSign(s) THEN [ok |-> FALSE, le |-> <<0, 0, 0, 0>>]
    ELSE IF s[1] = 43 THEN ParseU32Go(Tail(s), 1, <<0, 0, 0, 0>>)
    ELSE ParseU32Go(s, 1, <<0, 0, 0, 0>>)

(***************************************************************************)
(* The codec functions                                                     *)
(***************************************************************************)

\* the operation table with the codes of 'I' and 'D' exchanged
cigar_op_code_swapped(c) ==
    CASE c = 77 -> 0  [] c = 73 -> 2  [] c = 68 -> 1  [] c = 78 -> 3
      [] c = 83 -> 4  [] c = 72 -> 5  [] c = 80 -> 6  [] c = 61 -> 7
      [] c = 88 -> 8  [] OTHER -> 15

\* match c { 'M' => 0, ... , _ => 15 }  (encode_cigar)
cigar_op_code(c) ==
    CASE c = 77 -> 0  [] c = 73 -> 1  [] c = 68 -> 2  [] c = 78 -> 3
      [] c = 83 -> 4  [] c = 72 -> 5  [] c = 80 -> 6  [] c = 61 -> 7
      [] c = 88 -> 8  [] OTHER -> 15

\* (len << 4) | op_code on a u32 kept as little-endian bytes: the four high
\* bits of len are shifted out.
shl4_or(le, op) ==
    <<(le[1] % 16) * 16 + op,
      (le[2] % 16) * 16 + (le[1] \div 16),
      (le[3] % 16) * 16 + (le[2] \div 16),
      (le[4] % 16) * 16 + (le[3] \div 16)>>

\* one operation character c after the digits num: the encoded word
cigar_word(num, c) ==
    LET p  == parse_u32(num)
        le == IF p.ok THEN p.le ELSE <<0, 0, 0, 0>>
    IN  shl4_or(le, cigar_op_code(c))

RECURSIVE EncodeCigarGo(_, _, _, _)
EncodeCigarGo(cigar, i, num, result) ==
    IF i > Len(cigar) THEN result
    ELSE IF is_ascii_digit(cigar[i])
         THEN EncodeCigarGo(cigar, i + 1, Append(num, cigar[i]), result)
         ELSE EncodeCigarGo(cigar, i + 1, <<>>, result \o cigar_word(num, cigar[i]))

encode_cigar(cigar) == EncodeCigarGo(cigar, 1, <<>>, <<>>)

\* match base.to_ascii_uppercase() { '=' => 0, 'A' => 1, ... , _ => 15 }
base_code(base) ==
    LET b == to_ascii_uppercase(base)
    IN  CASE b = 61 -> 0  [] b = 65 -> 1  [] b = 67 -> 2  [] b = 77 -> 3
          [] b = 71 -> 4  [] b = 82 -> 5  [] b = 83 -> 6  [] b = 86 -> 7
          [] b = 84 -> 8  [] b = 87 -> 9  [] b = 89 -> 10 [] b = 72 -> 11
          [] b = 75 -> 12 [] b = 68 -> 13 [] b = 66 -> 14 [] b = 78 -> 15
          [] OTHER -> 15

\* the parity test after the loop: seq.len() % 2 != 0, on the BYTE length
seq_has_odd_tail(seq) == len(seq) % 2 # 0

RECURSIVE EncodeSeqGo(_, _, _, _)
\* i is the 0-based index of seq.chars().enumerate()
EncodeSeqGo(seq, i, byte, result) ==
    IF i >= Len(seq)
    THEN IF seq_has_odd_tail(seq) THEN Append(result, byte) ELSE result
    ELSE LET code == base_code(seq[i + 1])
         IN  IF i % 2 = 0
             THEN EncodeSeqGo(seq, i + 1, (code * 16) % 256, result)
             ELSE EncodeSeqGo(seq, i + 1, 0, Append(result, byte + code))

encode_seq(seq) == EncodeSeqGo(seq, 0, 0, <<>>)

\* u8::saturating_sub(33)
saturating_sub33(b) == IF b >= 33 THEN b - 33 ELSE 0

encode_qual(qual) ==
    IF qual = <<42>> THEN <<255>>
    ELSE LET bs == as_bytes(qual) IN [i \in 1..Len(bs) |-> saturating_sub33(bs[i])]

(***************************************************************************)
(* Header lines (main, the first loop)                                     *)
(***************************************************************************)

RECURSIVE SqScanGo(_, _, _, _)
\* for field in line.split('\t'): the last "SN:" field sets name, the last
\* "LN:" field sets len (None when it does not parse).
SqScanGo(fs, k, name, ln) ==
    IF k > Len(fs) THEN [name |-> name, ln |-> ln]
    ELSE IF starts_with(fs[k], <<83, 78, 58>>)
         THEN SqScanGo(fs, k + 1, [some |-> TRUE, v |-> SubSeq(fs[k], 4, Len(fs[k]))], ln)
    ELSE IF starts_with(fs[k], <<76, 78, 58>>)
         THEN LET p == parse_u32(SubSeq(fs[k], 4, Len(fs[k])))
              IN  SqScanGo(fs, k + 1, name, [some |-> p.ok, v |-> p.le])
    ELSE SqScanGo(fs, k + 1, name, ln)

\* what an "@SQ" line leaves in (name, len)
sq_scan(line) ==
    SqScanGo(split(line, 9), 1, [some |-> FALSE, v |-> <<>>], [some |-> FALSE, v |-> <<>>])

\* if let (Some(n), Some(l)) = (name, len): the line adds a dictionary entry
sq_accepted(line) ==
    /\ starts_with(line, <<64, 83, 81>>)
    /\ sq_scan(line).name.some
    /\ sq_scan(line).ln.some

is_header_line(line) == starts_with(line, <<64>>)

(***************************************************************************)
(* Alignment lines (main, the second loop)                                 *)
(***************************************************************************)

RECURSIVE PositionGo(_, _, _)
PositionGo(names, name, i) ==
    IF i > Len(names) THEN [ok |-> FALSE, val |-> 0]
    ELSE IF names[i] = name THEN [ok |-> TRUE, val |-> i - 1]
    ELSE PositionGo(names, name, i + 1)

\* the index of the LAST match (rposition) instead of the first
position_last(names, name) ==
    LET hits == {i \in 1..Len(names) : names[i] = name}
    IN  IF hits = {} THEN [ok |-> FALSE, val |-> 0]
        ELSE [ok |-> TRUE, val |-> (CHOOSE i \in hits : \A j \in hits : j <= i) - 1]

\* ref_names.iter().position(|r| r == name): 0-based index of the first match
position(names, name) == PositionGo(names, name, 1)

\* ... .unwrap_or(0) as i32
lookup_tid(names, name) == unwrap_or(position(names, name), 0)

next_tid_of(names, rnext, tid) ==
    IF rnext = <<42>> THEN -1
    ELSE IF rnext = <<61>> THEN tid
    ELSE lookup_tid(names, rnext)

\* i32 minus one, wrapping (what a build without overflow checks computes)
wrapping_dec(v) == IF v = -2147483647 - 1 THEN 2147483647 ELSE v - 1

\* whether "parse().unwrap_or(1) - 1" overflows i32
dec_overflows(text) == unwrap_or(parse_i32(text), 1) = -2147483647 - 1

\* cigar.matches(|c| c.is_ascii_alphabetic()).count() as u16
count_alphabetic(cigar) ==
    Cardinality({i \in 1..Len(cigar) : is_ascii_alphabetic(cigar[i])}) % 65536

\* One optional field: the bytes it appends, or the out-of-range index of
\* value.as_bytes()[0] on an empty value.
encode_tag(tag_field) ==
    LET parts == splitn(tag_field, 3, 58)
    IN  IF Len(parts) # 3 THEN [panic |-> FALSE, bytes |-> <<>>]
        ELSE LET tag       == parts[1]
                 type_char == parts[2]
                 value     == parts[3]
             IN  CASE type_char = <<65>> ->
                        IF as_bytes(value) = <<>>
                        THEN [panic |-> TRUE, bytes |-> <<>>]
                        ELSE [panic |-> FALSE,
                              bytes |-> as_bytes(tag) \o <<65>> \o <<as_bytes(value)[1]>>]
                   [] type_char = <<105>> ->
                        LET r == parse_i32(value)
                        IN  IF r.ok
                            THEN [panic |-> FALSE,
                                  bytes |-> as_bytes(tag) \o <<105>> \o i32_le(r.val)]
                            ELSE [panic |-> FALSE, bytes |-> <<>>]
                   [] type_char = <<90>> ->
                        [panic |-> FALSE,
                         bytes |-> as_bytes(tag) \o <<90>> \o as_bytes(value) \o <<0>>]
                   [] OTHER -> [panic |-> FALSE, bytes |-> <<>>]

RECURSIVE EncodeTagsGo(_, _, _)
\* for tag_field in fields.iter().skip(11)
EncodeTagsGo(fields, k, bytes) ==
    IF k > Len(fields) THEN [panic |-> FALSE, bytes |-> bytes]
    ELSE LET t == encode_tag(fields[k])
         IN  IF t.panic THEN [panic |-> TRUE, bytes |-> bytes]
             ELSE EncodeTagsGo(fields, k + 1, bytes \o t.bytes)

encode_tags(fields) == EncodeTagsGo(fields, 12, <<>>)

\* backpatch with the length of the whole buffer, the prefix included
backpatch_whole_len(rec) == u32_le(Len(rec)) \o SubSeq(rec, 5, Len(rec))

\* let block_size = (record.len() - 4) as u32;
\* record[0..4].copy_from_slice(&block_size.to_le_bytes())
backpatch(rec) == u32_le(Len(rec) - 4) \o SubSeq(rec, 5, Len(rec))

\* The locals of one iteration, from the split fields and the dictionary.
locals_of(fields, names) ==
    LET tid == lookup_tid(names, fields[3])
    IN  [fields      |-> fields,
         tid         |-> tid,
         next_tid    |-> next_tid_of(names, fields[7], tid),
         l_read_name |-> len(fields[1]) + 1,
         n_cigar_op  |-> count_alphabetic(fields[6]),
         l_seq       |-> len(fields[10]),
         cigar_bytes |-> encode_cigar(fields[6]),
         seq_bytes   |-> encode_seq(fields[10]),
         qual_bytes  |-> encode_qual(fields[11])]

\* the record buffer before the optional fields are appended
record_body(l) ==
    LET f     == l.fields
        flag  == unwrap_or(parse_unsigned(f[2], 65535), 0)
        pos   == wrapping_dec(unwrap_or(parse_i32(f[4]), 1))
        mapq  == unwrap_or(parse_unsigned(f[5], 255), 255)
        pnext == wrapping_dec(unwrap_or(parse_i32(f[8]), 1))
        tlen  == unwrap_or(parse_i32(f[9]), 0)
    IN  <<0, 0, 0, 0>>
        \o i32_le(l.tid) \o i32_le(pos)
        \o <<l.l_read_name % 256>> \o <<mapq>>
        \o u16_le(0) \o u16_le(l.n_cigar_op) \o u16_le(flag)
        \o u32_le(l.l_seq)
        \o i32_le(l.next_tid) \o i32_le(pnext) \o i32_le(tlen)
        \o as_bytes(f[1]) \o <<0>>
        \o l.cigar_bytes \o l.seq_bytes \o l.qual_bytes

\* the encoded record of one alignment line
encode_record(l) == backpatch(record_body(l) \o encode_tags(l.fields).bytes)

BAM_MAGIC == <<66, 65, 77, 1>>

BAM_EOF == <<31, 139, 8, 4, 0, 0, 0, 0, 0, 255, 6, 0, 66, 67, 2, 0,
             27, 0, 3, 0, 0, 0, 0, 0, 0, 0, 0, 0>>

\* the chunks of the header block: text, then the reference dictionary
header_chunks(text, names, lengths) ==
    <<u32_le(Len(text)), text, u32_le(Len(names))>>
    \o Concat([i \in 1..Len(names) |->
                 <<u32_le(len(names[i]) + 1), as_bytes(names[i]) \o <<0>>, lengths[i]>>])

NoLocals ==
    [fields |-> <<>>, tid |-> 0, next_tid |-> 0, l_read_name |-> 0,
     n_cigar_op |-> 0, l_seq |-> 0, cigar_bytes |-> <<>>, seq_bytes |-> <<>>,
     qual_bytes |-> <<>>]

(***************************************************************************)
(* Input files.  A file is a sequence of lines; a line is its text without *)
(* the line break.  The files are several families, each varying one part  *)
(* of the input.                                                           *)
(***************************************************************************)

MaxLines == 3
MaxRefs == 3
MaxCigarOps == 2
MaxSeqLen == 3
MaxTags == 2

SeqsUpTo(S, n) == UNION {[1..k -> S] : k \in 0..n}

RECURSIVE Join(_, _)
\* fields joined by the separator sep
Join(fs, sep) ==
    IF Len(fs) = 0 THEN <<>>
    ELSE IF Len(fs) = 1 THEN fs[1]
    ELSE fs[1] \o <<sep>> \o Join(Tail(fs), sep)

TabLine(fs) == Join(fs, 9)

\* text of n copies of the character c
Repeat(c, n) == [i \in 1..n |-> c]

Str_SQ == <<64, 83, 81>>
Str_chr1 == <<99, 104, 114, 49>>
Str_chr2 == <<99, 104, 114, 50>>
Str_chr3 == <<99, 104, 114, 51>>
Str_r1 == <<114, 49>>
Str_ACGT == <<65, 67, 71, 84>>
Str_FFFF == <<70, 70, 70, 70>>
Str_4M == <<52, 77>>
Str_star == <<42>>
Str_eq == <<61>>
Str_0 == <<48>>
Str_5 == <<53>>
Str_60 == <<54, 48>>

SN(name) == <<83, 78, 58>> \o name
LN(digits) == <<76, 78, 58>> \o digits

\* "@HD\tVN:1.0"
Line_HD == TabLine(<<<<64, 72, 68>>, <<86, 78, 58, 49, 46, 48>>>>)
\* "@SQ\tSN:chr1\tLN:1000"
Line_SQ_chr1 == TabLine(<<Str_SQ, SN(Str_chr1), LN(<<49, 48, 48, 48>>)>>)
\* "@SQ\tSN:chr2\tLN:4294967295"
Line_SQ_chr2 == TabLine(<<Str_SQ, SN(Str_chr2), LN(<<52, 50, 57, 52, 57, 54, 55, 50, 57, 53>>)>>)
\* "@SQ\tSN:chr1\tLN:7": the name chr1 declared again
Line_SQ_chr1_again == TabLine(<<Str_SQ, SN(Str_chr1), LN(<<55>>)>>)
\* "@SQ\tSN:chr3\tLN:4294967296": the length does not fit u32
Line_SQ_too_long == TabLine(<<Str_SQ, SN(Str_chr3), LN(<<52, 50, 57, 52, 57, 54, 55, 50, 57, 54>>)>>)
\* "@SQ\tSN:chr3": no length
Line_SQ_no_LN == TabLine(<<Str_SQ, SN(Str_chr3)>>)
\* "@SQ\tLN:5": no name
Line_SQ_no_SN == TabLine(<<Str_SQ, LN(Str_5)>>)
\* "@SQ\tSN:chr3\tLN:7\tLN:x": a parsable length followed by an unparsable one
Line_SQ_two_LN == TabLine(<<Str_SQ, SN(Str_chr3), LN(<<55>>), LN(<<120>>)>>)

\* an alignment line from its eleven mandatory fields and its optional fields
AlignLine(qname, flag, rname, pos, mapq, cigar, rnext, pnext, tlen, seq, qual, tags) ==
    TabLine(<<qname, flag, rname, pos, mapq, cigar, rnext, pnext, tlen, seq, qual>> \o tags)

\* "r1\t0\tchr1\t5\t60\t4M\t*\t0\t0\tACGT\tFFFF"
Line_read1 ==
    AlignLine(Str_r1, Str_0, Str_chr1, Str_5, Str_60, Str_4M, Str_star, Str_0, Str_0,
              Str_ACGT, Str_FFFF, <<>>)
\* the same read on chr2 with the mate on the same reference and a tag
Line_read2 ==
    AlignLine(<<114, 50>>, <<49, 54>>, Str_chr2, <<57>>, Str_60, Str_4M, Str_eq, Str_5,
              <<45, 52>>, Str_ACGT, Str_star, <<<<78, 77, 58, 105, 58, 53>>>>)
\* ten fields only
Line_short == TabLine(<<Str_r1, Str_0, Str_chr1, Str_5, Str_60, Str_4M, Str_star, Str_0, Str_0, Str_ACGT>>)
\* an A tag without a value: "XX:A:"
Line_A_empty ==
    AlignLine(Str_r1, Str_0, Str_chr1, Str_5, Str_60, Str_4M, Str_star, Str_0, Str_0,
              Str_ACGT, Str_FFFF, <<<<88, 88, 58, 65, 58>>>>)

\* header and alignment lines in any order
MixedLines == {Line_HD, Line_SQ_chr1, Line_SQ_chr2, Line_read1, Line_read2,
               Line_short, Line_A_empty}
MixedFiles == SeqsUpTo(MixedLines, MaxLines)

\* reference declarations, then one read naming a reference and a mate reference
SqLines == {Line_SQ_chr1, Line_SQ_chr2, Line_SQ_chr1_again, Line_SQ_no_LN}
RefPairs == {<<rn, Str_star>> : rn \in {Str_star, Str_chr1, Str_chr2, Str_chr3}}
            \cup {<<Str_chr2, rx>> : rx \in {Str_eq, Str_chr1, Str_chr2, Str_chr3}}
            \cup {<<Str_star, Str_eq>>, <<Str_chr3, Str_eq>>, <<Str_chr1, Str_chr2>>}
ReadOn(rname, rnext) ==
    AlignLine(Str_r1, Str_0, rname, Str_5, Str_60, Str_4M, rnext, Str_0, Str_0,
              Str_ACGT, Str_FFFF, <<>>)
RefFiles == {h \o <<ReadOn(rp[1], rp[2])>> : h \in SeqsUpTo(SqLines, MaxRefs), rp \in RefPairs}

\* every kind of @SQ line, followed by a declaration of chr2 and reads on chr3 and chr2
AllSqLines == SqLines \cup {Line_SQ_too_long, Line_SQ_no_SN, Line_SQ_two_LN}
SqFiles == {<<l, Line_SQ_chr2, ReadOn(Str_chr3, Str_chr2), ReadOn(Str_chr2, Str_eq)>> :
               l \in AllSqLines}

ReadWithCigar(c) ==
    AlignLine(Str_r1, Str_0, Str_chr1, Str_5, Str_60, c, Str_star, Str_0, Str_0,
              Str_ACGT, Str_FFFF, <<>>)

\* one-operation CIGAR strings: every length text with every operation character
CigarDigits == {<<>>, <<52>>, <<48, 49, 48>>, <<50, 54, 56, 52, 51, 53, 52, 53, 53>>, <<50, 54, 56, 52, 51, 53, 52, 53, 54>>, <<52, 50, 57, 52, 57, 54, 55, 50, 57, 54>>}
\* M I D N S H P = X, the unknown operation Z, and *
CigarOpChars == {77, 73, 68, 78, 83, 72, 80, 61, 88, 90, 42}
OneOpCigars == {d \o <<c>> : d \in CigarDigits, c \in CigarOpChars}
\* CIGAR strings of up to MaxCigarOps operations: 4M 10= 2S 268435456M 3Z M *
CigarItems == {<<52, 77>>, <<49, 48, 61>>, <<50, 83>>, <<50, 54, 56, 52, 51, 53, 52, 53, 54, 77>>, <<51, 90>>, <<77>>, <<42>>}
Cigars == OneOpCigars \cup {Concat(t) : t \in SeqsUpTo(CigarItems, MaxCigarOps)}
CigarFiles == {<<Line_SQ_chr1, ReadWithCigar(c)>> : c \in Cigars}

ReadWithSeq(sq) ==
    AlignLine(Str_r1, Str_0, Str_chr1, Str_5, Str_60, Str_4M, Str_star, Str_0, Str_0,
              sq, Str_star, <<>>)

\* one-base sequences over = A C M G R S V T W Y H K D B N
BaseChars == {61, 65, 67, 77, 71, 82, 83, 86, 84, 87, 89, 72, 75, 68, 66, 78}
\* sequences of up to MaxSeqLen characters over A, c, =, G, the unknown base
\* x, and the two-byte character U+00E9
SeqChars == {65, 99, 61, 71, 120, 233}
Seqs == {<<c>> : c \in BaseChars} \cup SeqsUpTo(SeqChars, MaxSeqLen)
SeqFiles == {<<Line_SQ_chr1, ReadWithSeq(sq)>> : sq \in Seqs}

\* query names of 1, 2, 253, 254, 255 and 256 bytes
QNames == {Repeat(113, n) : n \in {1, 2, 253, 254, 255, 256}} \cup {<<233>>}
QNameFiles ==
    {<<Line_SQ_chr1,
       AlignLine(q, Str_0, Str_chr1, Str_5, Str_60, Str_4M, Str_star, Str_0, Str_0,
                 Str_ACGT, Str_FFFF, <<<<78, 77, 58, 105, 58, 53>>>>)>> : q \in QNames}

\* optional fields: NM:i:5, NM:i:-1, NM:i:abc, XA:A:Q, XX:A:, RG:Z:g1, RG:Z:,
\* XF:f:1.5, XB:B:c,1, XQ:q:1, bad, a:b
TagFields == {<<78, 77, 58, 105, 58, 53>>, <<78, 77, 58, 105, 58, 45, 49>>, <<78, 77, 58, 105, 58, 97, 98, 99>>, <<88, 65, 58, 65, 58, 81>>, <<88, 88, 58, 65, 58>>, <<82, 71, 58, 90, 58, 103, 49>>, <<82, 71, 58, 90, 58>>,
              <<88, 70, 58, 102, 58, 49, 46, 53>>, <<88, 66, 58, 66, 58, 99, 44, 49>>, <<88, 81, 58, 113, 58, 49>>, <<98, 97, 100>>, <<97, 58, 98>>}
TagFiles ==
    {<<Line_SQ_chr1,
       AlignLine(Str_r1, Str_0, Str_chr1, Str_5, Str_60, Str_4M, Str_star, Str_0, Str_0,
                 Str_ACGT, Str_FFFF, tg)>> : tg \in SeqsUpTo(TagFields, MaxTags)}

\* numeric fields: a position and a mate position at i32::MIN, unparsable
\* and out-of-range flag, mapq and tlen
Str_i32_min == <<45, 50, 49, 52, 55, 52, 56, 51, 54, 52, 56>>
NumFiles ==
    {<<Line_SQ_chr1,
       AlignLine(Str_r1, fl, Str_chr1, ps, mq, Str_4M, Str_star, pn, tl,
                 Str_ACGT, Str_FFFF, <<>>)>> :
        fl \in {Str_0, <<54, 53, 53, 51, 54>>}, ps \in {Str_5, Str_i32_min, <<120>>},
        mq \in {Str_60, <<50, 53, 54>>}, pn \in {Str_0, Str_i32_min},
        tl \in {Str_0, <<45, 50, 49, 52, 55, 52, 56, 51, 54, 52, 56>>, <<50, 49, 52, 55, 52, 56, 51, 54, 52, 56>>}}

Files == MixedFiles \cup RefFiles \cup SqFiles \cup CigarFiles \cup SeqFiles \cup QNameFiles
         \cup TagFiles \cup NumFiles

(***************************************************************************)
(* main                                                                    *)
(***************************************************************************)

Init ==
    /\ input \in Files
    /\ lines = input
    /\ header_text = <<>>
    /\ ref_names = <<>>
    /\ ref_lengths = <<>>
    /\ records = <<>>
    /\ loc = NoLocals
    /\ record = <<>>
    /\ bgzf_writer = <<>>
    /\ finished = FALSE
    /\ writer = <<>>
    /\ pc = "read"

\* for line in reader.lines(): a line starting with '@'
ReadHeaderLine ==
    /\ pc = "read"
    /\ lines # <<>>
    /\ is_header_line(Head(lines))
    /\ header_text' = header_text \o as_bytes(Head(lines)) \o <<10>>
    /\ IF sq_accepted(Head(lines))
       THEN /\ ref_names' = Append(ref_names, sq_scan(Head(lines)).name.v)
            /\ ref_lengths' = Append(ref_lengths, sq_scan(Head(lines)).ln.v)
       ELSE UNCHANGED <<ref_names, ref_lengths>>
    /\ lines' = Tail(lines)
    /\ UNCHANGED <<input, records, loc, record, bgzf_writer, finished, writer, pc>>

\* for line in reader.lines(): any other line is kept for the second loop
ReadAlignmentLine ==
    /\ pc = "read"
    /\ lines # <<>>
    /\ ~is_header_line(Head(lines))
    /\ records' = Append(records, Head(lines))
    /\ lines' = Tail(lines)
    /\ UNCHANGED <<input, header_text, ref_names, ref_lengths, loc, record,
                   bgzf_writer, finished, writer, pc>>

\* the first loop has ended: bgzf_writer.write_all(BAM_MAGIC)
WriteMagic ==
    /\ pc = "read"
    /\ lines = <<>>
    /\ bgzf_writer' = Append(bgzf_writer, BAM_MAGIC)
    /\ pc' = "header"
    /\ UNCHANGED <<input, lines, header_text, ref_names, ref_lengths, records,
                   loc, record, finished, writer>>

\* the header text and the reference sequences
WriteHeader ==
    /\ pc = "header"
    /\ bgzf_writer' = bgzf_writer \o header_chunks(header_text, ref_names, ref_lengths)
    /\ pc' = "records"
    /\ UNCHANGED <<input, lines, header_text, ref_names, ref_lengths, records,
                   loc, record, finished, writer>>

\* for record in records: fields.len() < 11, continue
SkipRecord ==
    /\ pc = "records"
    /\ records # <<>>
    /\ Len(split(Head(records), 9)) < 11
    /\ records' = Tail(records)
    /\ UNCHANGED <<input, lines, header_text, ref_names, ref_lengths,
                   loc, record, bgzf_writer, finished, writer, pc>>

\* one iteration up to the backpatched record buffer
EncodeRecord ==
    /\ pc = "records"
    /\ records # <<>>
    /\ LET fields == split(Head(records), 9)
       IN  /\ Len(fields) >= 11
           /\ ~encode_tags(fields).panic
           /\ loc' = locals_of(fields, ref_names)
           /\ record' = encode_record(locals_of(fields, ref_names))
    /\ records' = Tail(records)
    /\ pc' = "write"
    /\ UNCHANGED <<input, lines, header_text, ref_names, ref_lengths,
                   bgzf_writer, finished, writer>>

\* "attempt to subtract with overflow" on pos or pnext, in a build with
\* overflow checks
PanicOverflow ==
    /\ pc = "records"
    /\ records # <<>>
    /\ LET fields == split(Head(records), 9)
       IN  /\ Len(fields) >= 11
           /\ dec_overflows(fields[4]) \/ dec_overflows(fields[8])
    /\ pc' = "panic_overflow"
    /\ UNCHANGED <<input, lines, header_text, ref_names, ref_lengths, records,
                   loc, record, bgzf_writer, finished, writer>>

\* value.as_bytes()[0] on an empty value: index out of bounds
PanicIndex ==
    /\ pc = "records"
    /\ records # <<>>
    /\ LET fields == split(Head(records), 9)
       IN  /\ Len(fields) >= 11
           /\ encode_tags(fields).panic
    /\ pc' = "panic_index"
    /\ UNCHANGED <<input, lines, header_text, ref_names, ref_lengths, records,
                   loc, record, bgzf_writer, finished, writer>>

\* the iteration ends without handing the record to the writer
WriteRecord_not_written ==
    /\ pc = "write"
    /\ record' = <<>>
    /\ loc' = NoLocals
    /\ pc' = "records"
    /\ UNCHANGED <<input, lines, header_text, ref_names, ref_lengths, records,
                   bgzf_writer, finished, writer>>

\* bgzf_writer.write_all(&record), the end of the iteration
WriteRecord ==
    /\ pc = "write"
    /\ bgzf_writer' = Append(bgzf_writer, record)
    /\ record' = <<>>
    /\ loc' = NoLocals
    /\ pc' = "records"
    /\ UNCHANGED <<input, lines, header_text, ref_names, ref_lengths, records,
                   finished, writer>>

\* bgzf_writer.finish()
Finish ==
    /\ pc = "records"
    /\ records = <<>>
    /\ finished' = TRUE
    /\ pc' = "eof"
    /\ UNCHANGED <<input, lines, header_text, ref_names, ref_lengths, records,
                   loc, record, bgzf_writer, writer>>

\* writer.write_all(&BAM_EOF), flush, Ok(())
WriteEOF ==
    /\ pc = "eof"
    /\ writer' = Append(writer, BAM_EOF)
    /\ pc' = "done"
    /\ UNCHANGED <<input, lines, header_text, ref_names, ref_lengths, records,
                   loc, record, bgzf_writer, finished>>

\* a `?` on a failed read or write ends main with the error
IoError ==
    /\ \/ pc \in {"read", "header", "write", "eof"}
       \/ pc = "records" /\ records = <<>>
    /\ pc' = "io_error"
    /\ UNCHANGED <<input, lines, header_text, ref_names, ref_lengths, records,
                   loc, record, bgzf_writer, finished, writer>>

Next ==
    \/ ReadHeaderLine
    \/ ReadAlignmentLine
    \/ WriteMagic
    \/ WriteHeader
    \/ SkipRecord
    \/ EncodeRecord
    \/ PanicOverflow
    \/ PanicIndex
    \/ WriteRecord
    \/ Finish
    \/ WriteEOF
    \/ IoError

Spec == Init /\ [][Next]_vars

(***************************************************************************)
(* Properties                                                              *)
(***************************************************************************)

\* the lines of a file that are not header lines, in order
AlignmentLinesOf(file) == SelectSeq(file, LAMBDA l : ~is_header_line(l))

HasElevenFields(l) == Len(split(l, 9)) >= 11

\* the alignment lines with at least 11 tab-separated fields, in order
ValidLinesOf(file) == SelectSeq(AlignmentLinesOf(file), HasElevenFields)

\* the lines read so far
LinesRead == SubSeq(input, 1, Len(input) - Len(lines))

\* the alignment lines the second loop has taken from `records`
LinesTaken ==
    SubSeq(AlignmentLinesOf(LinesRead), 1, Len(AlignmentLinesOf(LinesRead)) - Len(records))

\* magic, header length, header text, reference count, three chunks per reference
NumHeaderChunks == 4 + 3 * Len(ref_names)

\* the record chunks handed to the compressing writer so far
RecordChunks ==
    IF Len(bgzf_writer) > NumHeaderChunks
    THEN SubSeq(bgzf_writer, NumHeaderChunks + 1, Len(bgzf_writer))
    ELSE <<>>

\* the value of four little-endian bytes (below 2^31)
LeValue(b) == b[1] + 256 * b[2] + 65536 * b[3] + 16777216 * b[4]

Ended == pc \in {"done", "panic_index", "panic_overflow"}

\* ---------------------------------------------------------------- C1
\* C1: on a run without I/O failure the compressing writer receives the
\* magic once, the header block once, then one encoded record per alignment
\* line with at least 11 fields, in line order; the end-of-stream marker is
\* written exactly once, after the compressor is finished and after every
\* record.  (Stated for the runs that end normally or in the index panic.)
C1_OutputOrder ==
    /\ (writer # <<>> => finished /\ pc = "done")
    /\ (pc \in {"done", "panic_index"} =>
          /\ bgzf_writer =
                <<BAM_MAGIC>> \o header_chunks(header_text, ref_names, ref_lengths)
                \o [k \in 1..Len(ValidLinesOf(input)) |->
                      encode_record(locals_of(split(ValidLinesOf(input)[k], 9), ref_names))]
          /\ finished
          /\ writer = <<BAM_EOF>>)

\* ---------------------------------------------------------------- C2
\* C2: the little-endian u32 in the first 4 bytes of every encoded record
\* equals the record's total byte length minus 4, whatever its fields and
\* optional fields are.
C2_BlockSize ==
    /\ \A i \in 1..Len(RecordChunks) :
          LeValue(SubSeq(RecordChunks[i], 1, 4)) = Len(RecordChunks[i]) - 4
    /\ (pc = "write" => LeValue(SubSeq(record, 1, 4)) = Len(record) - 4)

\* a written record whose line has a skipped optional field followed by an
\* encoded one
C2_Witness ==
    /\ pc = "done"
    /\ Len(RecordChunks) = 1
    /\ LET f == split(ValidLinesOf(input)[1], 9)
       IN  /\ Len(f) = 13
           /\ encode_tag(f[12]).bytes = <<>>
           /\ encode_tag(f[13]).bytes # <<>>
           /\ Len(RecordChunks[1]) > 36 + len(f[1]) + 1

\* ---------------------------------------------------------------- C3
\* the positions of the fields fs that start with the given key
KeyFields(fs, key) == {k \in 1..Len(fs) : starts_with(fs[k], key)}

LastOf(S) == CHOOSE i \in S : \A j \in S : j <= i

\* a line that declares a reference: it starts with "@SQ", has an SN: field,
\* and its last LN: field parses as u32
Declares(line) ==
    /\ starts_with(line, <<64, 83, 81>>)
    /\ LET fs  == split(line, 9)
           lns == KeyFields(fs, <<76, 78, 58>>)
       IN  /\ KeyFields(fs, <<83, 78, 58>>) # {}
           /\ lns # {}
           /\ parse_u32(SubSeq(fs[LastOf(lns)], 4, Len(fs[LastOf(lns)]))).ok

\* the name it declares: the text of its last SN: field
DeclaredName(line) ==
    LET fs == split(line, 9)
        f  == fs[LastOf(KeyFields(fs, <<83, 78, 58>>))]
    IN  SubSeq(f, 4, Len(f))

\* the names declared by the lines read so far, in encounter order
DeclaredNames ==
    LET d == SelectSeq(LinesRead, Declares)
    IN  [i \in 1..Len(d) |-> DeclaredName(d[i])]

\* the dictionary is the declared names in encounter order, repeats kept
DictionaryInEncounterOrder == ref_names = DeclaredNames /\ Len(ref_lengths) = Len(ref_names)

FirstIndex(names, name) == CHOOSE i \in 1..Len(names) : names[i] = name /\ \A j \in 1..(i - 1) : names[j] # name

\* N such that name is the Nth distinct name of names
DistinctRank(names, name) ==
    Cardinality({names[j] : j \in 1..FirstIndex(names, name)})

IsDeclared(name) == \E i \in 1..Len(ref_names) : ref_names[i] = name

\* C3 as stated: indices follow encounter order and a record naming the Nth
\* distinct declared reference gets refID N-1.
C3_NthDistinct ==
    /\ DictionaryInEncounterOrder
    /\ (pc = "write" /\ IsDeclared(loc.fields[3]) =>
          /\ loc.tid = DistinctRank(ref_names, loc.fields[3]) - 1
          /\ SubSeq(record, 5, 8) = i32_le(DistinctRank(ref_names, loc.fields[3]) - 1))

\* C3 amended: indices follow encounter order, repeats kept, and a record
\* naming a declared reference gets the index of the FIRST dictionary entry
\* with that name.
C3_FirstDeclaration ==
    /\ DictionaryInEncounterOrder
    /\ (pc = "write" /\ IsDeclared(loc.fields[3]) =>
          /\ loc.tid = FirstIndex(ref_names, loc.fields[3]) - 1
          /\ SubSeq(record, 5, 8) = i32_le(FirstIndex(ref_names, loc.fields[3]) - 1))

\* a record naming the third entry of a dictionary whose first two entries
\* carry the same name
C3_Witness ==
    /\ pc = "write"
    /\ Len(ref_names) = 3
    /\ ref_names[1] = ref_names[2]
    /\ loc.fields[3] = ref_names[3]
    /\ ref_names[3] # ref_names[1]
    /\ loc.tid = 2

\* ---------------------------------------------------------------- C4
RefersToEntry(id) == id \in 0..(Len(ref_names) - 1)

\* C4: refID is the index of rname's exact match, or 0 when rname is "*" or
\* unmatched; next_refID is -1 for "*", refID for "=", otherwise rnext's
\* index with the same fallback; and every refID / next_refID other than -1
\* refers to an entry of the dictionary.
C4_RefIdsInDictionary ==
    pc = "write" =>
       LET rname == loc.fields[3]
           rnext == loc.fields[7]
           tid   == IF IsDeclared(rname) /\ rname # <<42>>
                    THEN FirstIndex(ref_names, rname) - 1 ELSE 0
           ntid  == IF rnext = <<42>> THEN -1
                    ELSE IF rnext = <<61>> THEN tid
                    ELSE IF IsDeclared(rnext) THEN FirstIndex(ref_names, rnext) - 1
                    ELSE 0
       IN  /\ SubSeq(record, 5, 8) = i32_le(tid)
           /\ SubSeq(record, 25, 28) = i32_le(ntid)
           /\ RefersToEntry(loc.tid)
           /\ (loc.next_tid # -1 => RefersToEntry(loc.next_tid))

\* ---------------------------------------------------------------- C5
\* the operation characters of the fixed table: M I D N S H P = X
TableOps == {77, 73, 68, 78, 83, 72, 80, 61, 88}

\* the character of an operation code in the fixed table (0 when it has none)
OpLetter(code) ==
    CASE code = 0 -> 77 [] code = 1 -> 73 [] code = 2 -> 68 [] code = 3 -> 78
      [] code = 4 -> 83 [] code = 5 -> 72 [] code = 6 -> 80 [] code = 7 -> 61
      [] code = 8 -> 88 [] OTHER -> 0

RECURSIVE DigitsEnd(_, _)
\* the end of the run of digits that starts at position i
DigitsEnd(s, i) == IF i <= Len(s) /\ is_ascii_digit(s[i]) THEN DigitsEnd(s, i + 1) ELSE i

RECURSIVE CigarItemsFrom(_, _)
\* the <digits, character> items of a CIGAR text from position i on; a
\* trailing run of digits without a character gives an item with character 0
CigarItemsFrom(s, i) ==
    IF i > Len(s) THEN <<>>
    ELSE LET e == DigitsEnd(s, i)
         IN  IF e > Len(s) THEN <<[digits |-> SubSeq(s, i, Len(s)), op |-> 0]>>
             ELSE <<[digits |-> SubSeq(s, i, e - 1), op |-> s[e]]>> \o CigarItemsFrom(s, e + 1)

\* <digits><op> repeats, with at least one digit and an operation of the table
IsDigitsOpRepeats(s) ==
    LET items == CigarItemsFrom(s, 1)
    IN  \A k \in 1..Len(items) : items[k].digits # <<>> /\ items[k].op \in TableOps

RECURSIVE StripZeros(_)
\* a decimal text without its leading zeros ("0" stays "0")
StripZeros(d) == IF Len(d) > 1 /\ d[1] = 48 THEN StripZeros(Tail(d)) ELSE d

RECURSIVE DecimalOf(_)
\* the decimal text of a number
DecimalOf(n) == IF n < 10 THEN <<48 + n>> ELSE Append(DecimalOf(n \div 10), 48 + (n % 10))

\* the (length, operation) pairs a CIGAR text denotes, lengths as decimal text
PairsOf(s) ==
    LET items == CigarItemsFrom(s, 1)
    IN  [k \in 1..Len(items) |-> <<StripZeros(items[k].digits), items[k].op>>]

\* the pairs decoded from packed words: length = word >> 4, op = word & 15
DecodedPairs(bytes) ==
    [k \in 1..(Len(bytes) \div 4) |->
        LET w == SubSeq(bytes, 4 * k - 3, 4 * k)
        IN  <<DecimalOf((w[1] \div 16) + 16 * w[2] + 4096 * w[3] + 1048576 * w[4]),
              OpLetter(w[1] % 16)>>]

\* a decimal text below 2^28 = 268435456
Below2p28(d) ==
    LET t == StripZeros(d)
    IN  Len(t) < 9 \/ (Len(t) = 9 /\ ParsePosGo(t, 1, 0, 268435455).ok)

AllLengthsBelow2p28(s) == \A k \in 1..Len(PairsOf(s)) : Below2p28(PairsOf(s)[k][1])

\* the packed CIGAR as it lies in the record, after the read name
CigarInRecord ==
    SubSeq(record, 37 + len(loc.fields[1]) + 1,
           36 + len(loc.fields[1]) + 1 + Len(loc.cigar_bytes))

\* C5 as stated: for a CIGAR of <digits><op> repeats, decoding the packed
\* words gives back the (length, operation) pairs, one word per pair.
C5_CigarRoundTrip ==
    pc = "write" /\ IsDigitsOpRepeats(loc.fields[6]) =>
        /\ Len(loc.cigar_bytes) = 4 * Len(PairsOf(loc.fields[6]))
        /\ DecodedPairs(loc.cigar_bytes) = PairsOf(loc.fields[6])

\* C5 amended: the same, for CIGAR strings whose lengths are all below 2^28.
C5_CigarRoundTripBelow2p28 ==
    pc = "write" /\ IsDigitsOpRepeats(loc.fields[6]) /\ AllLengthsBelow2p28(loc.fields[6]) =>
        /\ Len(loc.cigar_bytes) = 4 * Len(PairsOf(loc.fields[6]))
        /\ DecodedPairs(loc.cigar_bytes) = PairsOf(loc.fields[6])
        /\ CigarInRecord = loc.cigar_bytes

\* a two-operation CIGAR of table operations, one of them '=', packed
C5_Witness ==
    /\ pc = "write"
    /\ IsDigitsOpRepeats(loc.fields[6])
    /\ AllLengthsBelow2p28(loc.fields[6])
    /\ Len(PairsOf(loc.fields[6])) = 2
    /\ PairsOf(loc.fields[6])[2][2] = 61
    /\ Len(loc.cigar_bytes) = 8

\* ---------------------------------------------------------------- C6
\* C6: encode_seq returns ceil(n/2) bytes for a sequence of n characters
\* (n/2 when n is even); byte k holds the code of base 2k in its high nibble
\* and the code of base 2k+1 in its low nibble, and the low nibble of the
\* final byte of an odd-length sequence is zero.
C6_SeqPacking ==
    pc = "write" =>
        LET sq == loc.fields[10]
            n  == Len(sq)
        IN  /\ Len(loc.seq_bytes) = (n + 1) \div 2
            /\ \A k \in 0..(((n + 1) \div 2) - 1) :
                  k + 1 <= Len(loc.seq_bytes) =>
                     loc.seq_bytes[k + 1] =
                        16 * base_code(sq[2 * k + 1])
                        + (IF 2 * k + 2 <= n THEN base_code(sq[2 * k + 2]) ELSE 0)

\* ---------------------------------------------------------------- C7
\* the bytes of the record after the quality bytes
TagBytes ==
    SubSeq(record,
           37 + len(loc.fields[1]) + 1 + Len(loc.cigar_bytes) + Len(loc.seq_bytes)
              + Len(loc.qual_bytes),
           Len(record))

\* a complete encoding of an optional field of type A, i or Z, or nothing
CompleteOrEmpty(f) ==
    LET parts == splitn(f, 3, 58)
    IN  IF Len(parts) # 3 THEN <<>>
        ELSE IF parts[2] = <<65>> /\ parts[3] # <<>>
             THEN as_bytes(parts[1]) \o <<65, as_bytes(parts[3])[1]>>
        ELSE IF parts[2] = <<105>> /\ parse_i32(parts[3]).ok
             THEN as_bytes(parts[1]) \o <<105>> \o i32_le(parse_i32(parts[3]).val)
        ELSE IF parts[2] = <<90>>
             THEN as_bytes(parts[1]) \o <<90>> \o as_bytes(parts[3]) \o <<0>>
        ELSE <<>>

\* C7: every optional field appends one complete encoding or nothing, the
\* encoding goes on with the next field and the record is emitted: no
\* optional field aborts the run.
C7_TagsNeverAbort ==
    /\ pc # "panic_index"
    /\ (pc = "write" =>
          TagBytes = Concat([k \in 1..(Len(loc.fields) - 11) |->
                               CompleteOrEmpty(loc.fields[11 + k])]))

\* ---------------------------------------------------------------- C8
\* C8 as stated: at most one alignment line has been read and not yet
\* written or dropped.
C8_OneLineInFlight ==
    Len(records) + (IF pc = "write" THEN 1 ELSE 0) <= 1

\* C8 amended: every input line is read, the alignment lines kept in input
\* order, before the first byte is written; from then on each alignment line
\* is encoded and written before the next one is encoded.
C8_ReadAllThenOneAtATime ==
    /\ (bgzf_writer # <<>> \/ record # <<>> => lines = <<>>)
    /\ (pc = "write" => record # <<>>)
    /\ (record # <<>> => pc \in {"write", "io_error"})
    /\ records = SubSeq(AlignmentLinesOf(LinesRead),
                        Len(AlignmentLinesOf(LinesRead)) - Len(records) + 1,
                        Len(AlignmentLinesOf(LinesRead)))
    /\ (pc \in {"records", "write", "eof", "done"} =>
          Len(RecordChunks) + (IF pc = "write" THEN 1 ELSE 0)
             = Len(SelectSeq(LinesTaken, HasElevenFields)))

\* a second record is encoded while a third line waits and the first record
\* is already written
C8_Witness ==
    /\ pc = "write"
    /\ Len(records) >= 1
    /\ Len(RecordChunks) >= 1

\* ---------------------------------------------------------------- C9
\* C9: n_cigar_op equals the number of 32-bit words encode_cigar appends.
C9_CigarOpCount ==
    pc = "write" =>
        /\ loc.n_cigar_op = Len(loc.cigar_bytes) \div 4
        /\ SubSeq(record, 17, 18) = u16_le(Len(loc.cigar_bytes) \div 4)

\* ---------------------------------------------------------------- C10
\* C10: the one-byte l_read_name field equals the byte length of the query
\* name plus one, the number of read_name bytes appended to the record.
C10_ReadNameLength ==
    pc = "write" =>
        /\ record[13] = len(loc.fields[1]) + 1
        /\ SubSeq(record, 37, 36 + record[13]) = as_bytes(loc.fields[1]) \o <<0>>
====
